---- MODULE Spec2Model ----
(***************************************************************************)
(* A model of vite-actix: the process-wide configuration store             *)
(* (src/proxy_vite_options.rs), the forwarding handler proxy_to_vite and   *)
(* the dev-server launcher start_vite_server (src/lib.rs), and the route   *)
(* binder configure_vite (src/vite_app_factory.rs).                        *)
(*                                                                         *)
(* Conventions.  Option<T> is a sequence of length at most one: None is    *)
(* <<>> and Some(x) is <<x>>.  A path is a sequence of components whose    *)
(* first component is "/" when the path is absolute; "./" is <<".">>.      *)
(* Text that the code parses is a sequence of one-character strings.       *)
(***************************************************************************)
EXTENDS Integers, Sequences, FiniteSets, TLC

VARIABLES
    cell,        \* PROXY_VITE_OPTIONS: the OnceLock's content, Option<ProxyViteOptions>
    cwd,         \* the process's current directory, Option<path> (None: current_dir() fails)
    files,       \* the filesystem: the set of <<directory, file name>> that exist
    vite_port,   \* the environment variable VITE_PORT, Option<string>
    op,          \* the operation that made the last step
    pre,         \* the OnceLock's content before that operation
    ret,         \* the Result that operation returned: "Ok", "Err" or "none"
    arg,         \* the port of the latest update_port call on a full cell, Option<u16>
    committer,   \* the call that filled the cell: "build", "global" or "none"
    globals,     \* what the global() calls since the latest build() call returned
    \* proxy_to_vite, one exchange at a time
    pc,              \* where the handler is: idle, read_body, send, await_head, read_resp, done
    req,             \* the incoming request's head: [method, uri]
    forward_url,     \* the handler's forward_url
    seen,            \* the store's port and VITE_PORT when the handler was invoked
    n_chunks,        \* how many items the stream being read has yielded
    client_body,     \* the chunks the client has sent, until the request is delivered
    body_bytes,      \* the handler's body_bytes
    outbound,        \* the outbound request on the wire, Option<[method, url, body]>
    n_sent,          \* how many outbound requests this exchange has issued
    forwarded_resp,  \* the dev server's response head, Option<[status, headers]>
    resp_body_bytes, \* the handler's resp_body_bytes
    result,          \* what the handler returned, Option<response or error>
    \* start_vite_server
    vite_working_dir, \* the environment variable VITE_WORKING_DIR, Option<path>
    which_output,     \* what the latest PATH lookup wrote, Option<text>
    start_ret,        \* what the latest start_vite_server call returned
    child,            \* the child that call spawned, Option<process>
    \* try_find_vite_dir
    found,            \* the latest try_find_vite_dir call, Option<[from, ret]>
    \* the host application (App / Scope) that configure_vite is applied to
    debug_assertions, \* cfg!(debug_assertions): the build is a development build
    services,         \* the resources registered, in registration order
    default_service,  \* the default service registered, Option<handler>
    configured,       \* configure_vite() has been applied
    running,          \* the application is built and serving
    dispatched,       \* the latest request and who answered it, Option<record>
    \* threads calling the store concurrently
    initializing,     \* the thread running get_or_init's initializer, Option<thread>
    tpc,              \* where each thread is in its call
    tlocal,           \* update_port's local `updated` of each thread, Option<ProxyViteOptions>
    tret,             \* what each thread's latest call returned
    committed,        \* the configurations of the build() calls that returned Ok
    observed          \* the configurations global() calls have returned

storeVars == <<cell, op, pre, ret, arg, committer, globals>>
envVars   == <<cwd, files, vite_port, vite_working_dir>>
startVars == <<which_output, start_ret, child>>
findVars  == <<found>>
routeVars == <<debug_assertions, services, default_service, configured,
               running, dispatched>>
threadVars == <<initializing, tpc, tlocal, tret, committed, observed>>
proxyVars == <<pc, req, forward_url, seen, n_chunks, client_body, body_bytes,
               outbound, n_sent, forwarded_resp, resp_body_bytes, result>>

None == <<>>
Some(x) == <<x>>

(***************************************************************************)
(* Bounds of the model.                                                    *)
(***************************************************************************)
MaxDepth == 2       \* the deepest directory below the root
MaxFiles == 1       \* how many config files the filesystem holds
MaxChunks == 2      \* how many chunks a body stream yields
MaxHeaders == 2     \* how many header entries the dev server's response carries
MaxOut == 3         \* how many characters the PATH lookup writes
MaxLines == 2       \* how many lines the child writes
MaxRoutes == 2      \* how many routes the application registers itself
MaxThreads == 2     \* how many threads call the store

Ports == {3000, 4321}
Levels == {"Warn", "Debug"}
NonUtf8 == "\\xFF"                    \* a directory name that is not valid UTF-8
DirNames == {"a", NonUtf8}
ConfigNames == {"vite.config.ts", "vite.config.js"}

Root == <<"/">>
RECURSIVE DirsTo(_)
DirsTo(d) ==
    IF d = 0 THEN {Root}
    ELSE LET up == DirsTo(d - 1)
         IN  up \cup {Append(p, n) : p \in {q \in up : Len(q) = d}, n \in DirNames}
Dirs == DirsTo(MaxDepth)

(***************************************************************************)
(* The filesystem as Path sees it.                                         *)
(***************************************************************************)
\* Path::parent: None for the root (and for an empty path).
parent(p) == IF Len(p) <= 1 THEN None ELSE Some(SubSeq(p, 1, Len(p) - 1))
\* Path::join(name).exists()
exists(dir, name) == <<dir, name>> \in files
\* Path::to_str: None when a component is not valid UTF-8.
to_str(p) == IF \E i \in 1..Len(p) : p[i] = NonUtf8 THEN None ELSE Some(p)

\* try_find_vite_dir's loop, from directory d on.
RECURSIVE FindFrom(_)
FindFrom(d) ==
    IF d = Root THEN None
    ELSE IF exists(d, "vite.config.ts") \/ exists(d, "vite.config.js")
         THEN to_str(d)
         ELSE IF parent(d) # None THEN FindFrom(parent(d)[1]) ELSE None

try_find_vite_dir == IF cwd = None THEN None ELSE FindFrom(cwd[1])

(***************************************************************************)
(* ProxyViteOptions and its builder.                                       *)
(***************************************************************************)
unwrap_or(o, d) == IF o = None THEN d ELSE o[1]

Default ==
    [port |-> None,
     working_directory |-> unwrap_or(try_find_vite_dir, <<".">>),
     log_level |-> Some("Debug")]

new == Default
port(self, p) == [self EXCEPT !.port = Some(p)]
working_directory(self, w) == [self EXCEPT !.working_directory = w]
log_level(self, l) == [self EXCEPT !.log_level = Some(l)]
disable_logging(self) == [self EXCEPT !.log_level = None]

\* What a caller can hand to build(): new() followed by any of the setters.
Built ==
    LET s0 == {new}
        s1 == s0 \cup {port(s, p) : s \in s0, p \in Ports}
        s2 == s1 \cup {working_directory(s, <<".">>) : s \in s1}
        s3 == s2 \cup {log_level(s, l) : s \in s2, l \in Levels}
    IN  s3 \cup {disable_logging(s) : s \in s3}

(***************************************************************************)
(* OnceLock<ProxyViteOptions>.                                             *)
(***************************************************************************)
\* OnceLock::set: stores the value only in an empty cell.
OnceLockSetMutantOverwrite(c, v) == Some(v)
OnceLockSet(c, v) == IF c = None THEN Some(v) ELSE c
OnceLockSetIsErr(c) == c # None
\* OnceLock::get_or_init: runs the initializer only on an empty cell.
OnceLockGetOrInit(c, v) == IF c = None THEN Some(v) ELSE c

\* ProxyViteOptions::build
build(self) ==
    /\ cell' = OnceLockSet(cell, self)
    /\ ret' = IF OnceLockSetIsErr(cell) THEN "Err" ELSE "Ok"
    /\ op' = "build"
    /\ pre' = cell
    /\ committer' = IF cell = None THEN "build" ELSE committer
    /\ globals' = <<>>
    /\ UNCHANGED <<arg, envVars, proxyVars, startVars,
                   findVars, routeVars, threadVars>>

\* the value ProxyViteOptions::global() leaves in the cell and returns
globalMutantRecompute == Some(Default)
globalValue == OnceLockGetOrInit(cell, Default)

\* ProxyViteOptions::global
global ==
    /\ cell' = globalValue
    /\ globals' = IF Len(globals) < 2 THEN Append(globals, cell'[1])
                  ELSE <<globals[2], cell'[1]>>
    /\ op' = "global"
    /\ pre' = cell
    /\ ret' = "none"
    /\ committer' = IF cell = None THEN "global" ELSE committer
    /\ UNCHANGED <<arg, envVars, proxyVars, startVars,
                   findVars, routeVars, threadVars>>

\* the cell after update_port(p): set() on a cell that get() found full
updatePortCellMutantInit(p) ==
    Some([(IF cell # None THEN cell[1] ELSE Default) EXCEPT !.port = Some(p)])
updatePortCell(p) ==
    IF cell # None
    THEN OnceLockSet(cell, [cell[1] EXCEPT !.port = Some(p)])
    ELSE cell

\* ProxyViteOptions::update_port
update_port(p) ==
    /\ cell' = updatePortCell(p)
    /\ ret' = "Ok"
    /\ op' = "update_port"
    /\ pre' = cell
    /\ arg' = IF cell # None THEN Some(p) ELSE arg
    /\ UNCHANGED <<committer, globals, envVars, proxyVars, startVars,
                   findVars, routeVars, threadVars>>

\* A call of try_find_vite_dir.
find ==
    /\ found' = Some([from |-> cwd, ret |-> try_find_vite_dir])
    /\ UNCHANGED <<storeVars, envVars, proxyVars, startVars, routeVars, threadVars>>

\* The process changes its current directory (std::env::set_current_dir).
chdir(d) ==
    /\ cwd # Some(d)
    /\ cwd' = Some(d)
    /\ op' = "chdir"
    /\ UNCHANGED <<cell, pre, ret, arg, committer, globals, files, vite_port,
                   vite_working_dir, proxyVars, startVars,
                   findVars, routeVars, threadVars>>

(***************************************************************************)
(* Byte strings.  A byte string is a sequence of runs [b, n], n >= 1 times *)
(* the byte b, with no two neighbouring runs of the same byte, so that     *)
(* two byte strings are equal exactly when they hold the same bytes.       *)
(***************************************************************************)
MAX_PAYLOAD_SIZE == 1073741824

Bytes == {"x", "y"}
ChunkLens == {0, 1, MAX_PAYLOAD_SIZE - 1}
Chunks == [b : Bytes, n : ChunkLens]

RECURSIVE len(_)
len(buf) == IF buf = <<>> THEN 0 ELSE buf[1].n + len(Tail(buf))

\* BytesMut::extend_from_slice
extendMutantOverwrite(buf, chunk) == IF chunk.n = 0 THEN <<>> ELSE <<chunk>>
extend_from_slice(buf, chunk) ==
    IF chunk.n = 0 THEN buf
    ELSE IF buf # <<>> /\ buf[Len(buf)].b = chunk.b
         THEN [buf EXCEPT ![Len(buf)].n = @ + chunk.n]
         ELSE Append(buf, chunk)

\* the size check of both buffering loops
overflowMutantChunkOnly(buf, chunk) == chunk.n > MAX_PAYLOAD_SIZE
overflow(buf, chunk) == (len(buf) + chunk.n) > MAX_PAYLOAD_SIZE

(***************************************************************************)
(* Text.  u16's Display, and the environment's strings.                    *)
(***************************************************************************)
Digit(d) ==
    CASE d = 0 -> "0" [] d = 1 -> "1" [] d = 2 -> "2" [] d = 3 -> "3"
      [] d = 4 -> "4" [] d = 5 -> "5" [] d = 6 -> "6" [] d = 7 -> "7"
      [] d = 8 -> "8" [] d = 9 -> "9"
RECURSIVE Display(_)
Display(n) == IF n < 10 THEN Digit(n) ELSE Display(n \div 10) \o Digit(n % 10)

\* std::env::var("VITE_PORT").unwrap_or("5173".to_string())
vite_port_or_default == unwrap_or(vite_port, "5173")

\* std::env::set_var("VITE_PORT", v)
set_var(v) ==
    /\ vite_port # Some(v)
    /\ vite_port' = Some(v)
    /\ UNCHANGED <<cwd, files, vite_working_dir, storeVars, proxyVars, startVars,
                   findVars, routeVars, threadVars>>

(***************************************************************************)
(* HeaderMap: each header name's values, in the order they were added.     *)
(***************************************************************************)
HeaderNames == {"set-cookie", "etag"}
HeaderValues == {"1", "2"}
HeaderEntries == HeaderNames \X HeaderValues
EmptyHeaders == [n \in HeaderNames |-> <<>>]

\* HeaderMap::append
append(h, n, v) == [h EXCEPT ![n] = Append(@, v)]
\* HeaderMap::insert, which HttpResponseBuilder::insert_header calls
insert(h, n, v) == [h EXCEPT ![n] = <<v>>]

\* the HeaderMap of a response whose head carries the entries es, in order
RECURSIVE HeaderMapOf(_)
HeaderMapOf(es) ==
    IF es = <<>> THEN EmptyHeaders
    ELSE append(HeaderMapOf(SubSeq(es, 1, Len(es) - 1)),
                es[Len(es)][1], es[Len(es)][2])

\* HeaderMap::iter: every (name, value) pair, a name's values in their order
RECURSIVE iter(_, _)
iter(h, names) ==
    IF names = {} THEN <<>>
    ELSE LET n == CHOOSE m \in names : TRUE
         IN  [i \in 1..Len(h[n]) |-> <<n, h[n][i]>>] \o iter(h, names \ {n})

\* the loop that copies the headers onto the response builder
RECURSIVE copy_headers(_, _)
copy_headers(res, pairs) ==
    IF pairs = <<>> THEN res
    ELSE copy_headers(insert(res, pairs[1][1], pairs[1][2]), Tail(pairs))

(***************************************************************************)
(* proxy_to_vite.                                                          *)
(***************************************************************************)
Methods == {"GET", "POST"}
Uris == {"/assets/app.js", "/api/?q=1"}
Statuses == {200, 404}

Failure(tag, status, msg) ==
    [tag |-> tag, status |-> status, msg |-> msg,
     headers |-> EmptyHeaders, body |-> <<>>]

storePort == IF cell = None THEN None ELSE cell[1].port

\* The handler is invoked with a request: it builds forward_url.
proxy_to_vite(m, u) ==
    /\ pc \in {"idle", "done"}
    /\ pc' = "read_body"
    /\ req' = [method |-> m, uri |-> u]
    /\ forward_url' = "http://localhost:" \o vite_port_or_default \o u
    /\ seen' = [store |-> storePort, env |-> vite_port]
    /\ n_chunks' = 0
    /\ client_body' = <<>>
    /\ body_bytes' = <<>>
    /\ outbound' = None
    /\ n_sent' = 0
    /\ forwarded_resp' = None
    /\ resp_body_bytes' = <<>>
    /\ result' = None
    /\ UNCHANGED <<storeVars, envVars, startVars,
                   findVars, routeVars, threadVars>>

\* payload.next() yields a chunk.
read_body_chunk(chunk) ==
    /\ pc = "read_body"
    /\ n_chunks < MaxChunks
    /\ n_chunks' = n_chunks + 1
    /\ client_body' = Append(client_body, chunk)
    /\ IF overflow(body_bytes, chunk)
       THEN /\ result' = Some(Failure("PayloadTooLarge", 413, "Payload overflow"))
            /\ pc' = "done"
            /\ UNCHANGED body_bytes
       ELSE /\ body_bytes' = extend_from_slice(body_bytes, chunk)
            /\ UNCHANGED <<pc, result>>
    /\ UNCHANGED <<req, forward_url, seen, outbound, n_sent, forwarded_resp,
                   resp_body_bytes, storeVars, envVars, startVars,
                   findVars, routeVars, threadVars>>

\* payload.next() yields an error: `chunk?` returns it.
read_body_error ==
    /\ pc = "read_body"
    /\ n_chunks < MaxChunks
    /\ n_chunks' = n_chunks + 1
    /\ result' = Some(Failure("PayloadError", 400, "payload"))
    /\ pc' = "done"
    /\ UNCHANGED <<req, forward_url, seen, client_body, body_bytes, outbound,
                   n_sent, forwarded_resp, resp_body_bytes, storeVars, envVars, startVars,
                   findVars, routeVars, threadVars>>

\* payload.next() yields None: the loop ends.
read_body_end ==
    /\ pc = "read_body"
    /\ pc' = "send"
    /\ UNCHANGED <<req, forward_url, seen, n_chunks, client_body, body_bytes,
                   outbound, n_sent, forwarded_resp, resp_body_bytes, result,
                   storeVars, envVars, startVars,
                   findVars, routeVars, threadVars>>

\* request_from(forward_url, req.head()).no_decompress().send_body(body_bytes)
send_body ==
    /\ pc = "send"
    /\ outbound' = Some([method |-> req.method, url |-> forward_url,
                         body |-> body_bytes])
    /\ n_sent' = n_sent + 1
    /\ body_bytes' = <<>>
    /\ pc' = "await_head"
    /\ UNCHANGED <<req, forward_url, seen, n_chunks, client_body,
                   forwarded_resp, resp_body_bytes, result, storeVars, envVars, startVars,
                   findVars, routeVars, threadVars>>

\* The send fails (nothing listens on the port, the connection drops).
send_failed ==
    /\ pc = "await_head"
    /\ result' = Some(Failure("InternalServerError", 500,
                              "Failed to forward request"))
    /\ pc' = "done"
    /\ outbound' = None
    /\ UNCHANGED <<req, forward_url, seen, n_chunks, client_body, body_bytes,
                   n_sent, forwarded_resp, resp_body_bytes, storeVars, envVars, startVars,
                   findVars, routeVars, threadVars>>

\* The dev server took the request and its response's head arrives.
send_answered(status, entries) ==
    /\ pc = "await_head"
    /\ forwarded_resp' = Some([status |-> status, headers |-> HeaderMapOf(entries)])
    /\ outbound' = None
    /\ client_body' = <<>>
    /\ n_chunks' = 0
    /\ pc' = "read_resp"
    /\ UNCHANGED <<req, forward_url, seen, body_bytes, n_sent,
                   resp_body_bytes, result, storeVars, envVars, startVars,
                   findVars, routeVars, threadVars>>

\* forwarded_resp.next() yields a chunk.
read_resp_chunk(chunk) ==
    /\ pc = "read_resp"
    /\ n_chunks < MaxChunks
    /\ n_chunks' = n_chunks + 1
    /\ IF overflow(resp_body_bytes, chunk)
       THEN /\ result' = Some(Failure("PayloadTooLarge", 413,
                                      "Response payload overflow"))
            /\ pc' = "done"
            /\ UNCHANGED resp_body_bytes
       ELSE /\ resp_body_bytes' = extend_from_slice(resp_body_bytes, chunk)
            /\ UNCHANGED <<pc, result>>
    /\ UNCHANGED <<req, forward_url, seen, client_body, body_bytes, outbound,
                   n_sent, forwarded_resp, storeVars, envVars, startVars,
                   findVars, routeVars, threadVars>>

\* forwarded_resp.next() yields an error: `chunk?` returns it.
read_resp_error ==
    /\ pc = "read_resp"
    /\ n_chunks < MaxChunks
    /\ n_chunks' = n_chunks + 1
    /\ result' = Some(Failure("PayloadError", 400, "payload"))
    /\ pc' = "done"
    /\ UNCHANGED <<req, forward_url, seen, client_body, body_bytes, outbound,
                   n_sent, forwarded_resp, resp_body_bytes, storeVars, envVars, startVars,
                   findVars, routeVars, threadVars>>

\* the response the handler builds from forwarded_resp and resp_body_bytes
built_response ==
    [tag |-> "Ok", status |-> forwarded_resp[1].status, msg |-> "",
     headers |-> copy_headers(EmptyHeaders,
                              iter(forwarded_resp[1].headers, HeaderNames)),
     body |-> resp_body_bytes]

\* forwarded_resp.next() yields None: the handler builds and returns the response.
respond ==
    /\ pc = "read_resp"
    /\ result' = Some(built_response)
    /\ pc' = "done"
    /\ UNCHANGED <<req, forward_url, seen, n_chunks, client_body, body_bytes,
                   outbound, n_sent, forwarded_resp, resp_body_bytes,
                   storeVars, envVars, startVars,
                   findVars, routeVars, threadVars>>

(***************************************************************************)
(* Text read from a pipe: a sequence of characters, one of which stands    *)
(* for a byte sequence that is not valid UTF-8.                            *)
(***************************************************************************)
Invalid == "\\xFF"
Whitespace == {" ", "\n"}
OutChars == Whitespace \cup {"v", Invalid}

\* String::from_utf8(..).is_ok()
from_utf8_ok(bytes) == \A i \in 1..Len(bytes) : bytes[i] # Invalid

\* str::trim
RECURSIVE trim_start(_)
trim_start(s) ==
    IF s # <<>> /\ s[1] \in Whitespace THEN trim_start(Tail(s)) ELSE s
RECURSIVE trim_end(_)
trim_end(s) ==
    IF s # <<>> /\ s[Len(s)] \in Whitespace
    THEN trim_end(SubSeq(s, 1, Len(s) - 1)) ELSE s
trim(s) == trim_end(trim_start(s))

\* s.split("\n").collect::<Vec<_>>().last(): what follows the last "\n"
RECURSIVE split_last(_)
split_last(s) ==
    IF s = <<>> \/ s[Len(s)] = "\n" THEN <<>>
    ELSE Append(split_last(SubSeq(s, 1, Len(s) - 1)), s[Len(s)])

(***************************************************************************)
(* start_vite_server.                                                      *)
(***************************************************************************)
\* `vite.is_empty()` on the trimmed output of the lookup
not_foundMutantUntrimmed(bytes) == bytes = <<>>
not_found(bytes) == trim(bytes) = <<>>

\* the executable: the last line of the trimmed output, trimmed
vite_executable(bytes) == trim(split_last(trim(bytes)))

\* the working directory the child is given
working_dir ==
    unwrap_or(vite_working_dir,
        unwrap_or(try_find_vite_dir,
            IF cwd = None THEN <<".">>
            ELSE unwrap_or(to_str(cwd[1]), <<".">>)))

\* the arguments the child is given
child_args == <<"--port", vite_port_or_default, "-l", "warn">>

\* start_vite_server, `lookup` being what running the PATH lookup gave
\* (None: it could not be run) and `spawns` whether the OS spawns the child.
start_vite_server(lookup, spawns) ==
    /\ IF child = None THEN TRUE ELSE ~child[1].open
    /\ which_output' = lookup
    /\ IF lookup = None
       THEN /\ start_ret' = "Err(io)"
            /\ child' = None
       ELSE IF ~from_utf8_ok(lookup[1])
       THEN /\ start_ret' = "Err(FromUtf8Error)"
            /\ child' = None
       ELSE IF not_found(lookup[1])
       THEN /\ start_ret' = "Err(NotFound)"
            /\ child' = None
       ELSE IF ~spawns
       THEN /\ start_ret' = "Err(io)"
            /\ child' = None
       ELSE /\ start_ret' = "Ok"
            /\ child' = Some([program |-> vite_executable(lookup[1]),
                              current_dir |-> working_dir,
                              args |-> child_args,
                              stdout |-> <<>>,
                              open |-> TRUE])
    /\ UNCHANGED <<storeVars, envVars, proxyVars,
                   findVars, routeVars, threadVars>>

\* The child writes a line to its standard output, which it inherited.
child_writes(line) ==
    /\ child # None
    /\ child[1].open
    /\ Len(child[1].stdout) < MaxLines
    /\ child' = Some([child[1] EXCEPT !.stdout = Append(@, line)])
    /\ UNCHANGED <<which_output, start_ret, storeVars, envVars, proxyVars,
                   findVars, routeVars, threadVars>>

\* The child closes its standard output (it exits).
child_closes ==
    /\ child # None
    /\ child[1].open
    /\ child' = Some([child[1] EXCEPT !.open = FALSE])
    /\ UNCHANGED <<which_output, start_ret, storeVars, envVars, proxyVars,
                   findVars, routeVars, threadVars>>

(***************************************************************************)
(* The host application: an App (or Scope) with the services registered on *)
(* it, and actix-web's dispatch of a request among them.  A request path   *)
(* is the sequence of its segments after the leading "/": "/api/" is       *)
(* <<"api", "">> and "/" is <<"">>.                                        *)
(***************************************************************************)
HttpMethods == {"GET", "POST", "PUT", "DELETE"}
AnyMethod == None       \* no method guard

\* resource patterns: a literal path, or a literal prefix followed by the
\* tail segment {file:.*}, which matches whatever is left of the path
Literal(path) == [prefix |-> path, tail |-> FALSE]
TailMatch(prefix) == [prefix |-> prefix, tail |-> TRUE]

is_match(pattern, path) ==
    IF pattern.tail
    THEN /\ Len(path) > Len(pattern.prefix)
         /\ SubSeq(path, 1, Len(pattern.prefix)) = pattern.prefix
    ELSE path = pattern.prefix

\* a method guard's check
check(guard, method) == guard = AnyMethod \/ guard = Some(method)

\* web::route().to(handler), web::get().to(handler), web::method(m).to(handler)
web_route(handler) == [guard |-> AnyMethod, to |-> handler]
web_method(m, handler) == [guard |-> Some(m), to |-> handler]
web_get(handler) == web_method("GET", handler)

\* web::resource(pattern).route(r): the guard stays on the route
resource(pattern, r) ==
    [pattern |-> pattern, guard |-> AnyMethod, routes |-> <<r>>]

\* App::new()
InitApp ==
    /\ services = <<>>
    /\ default_service = None
    /\ configured = FALSE
    /\ running = FALSE
    /\ dispatched = None

\* the application's own routes among the services
IsAppRoute(res) == \A i \in 1..Len(res.routes) : res.routes[i].to # "proxy_to_vite"
AppRoutes == {i \in 1..Len(services) : IsAppRoute(services[i])}

\* App::route(path, r): a resource of one route, the route's guards moved
\* onto the resource
route(path, r) ==
    /\ ~running
    /\ Cardinality(AppRoutes) < MaxRoutes
    /\ services' = Append(services,
            [pattern |-> Literal(path), guard |-> r.guard,
             routes |-> <<[r EXCEPT !.guard = AnyMethod]>>])
    /\ UNCHANGED <<debug_assertions, default_service, configured, running,
                   dispatched, storeVars, envVars, proxyVars, startVars,
                   findVars, threadVars>>

\* ViteAppFactory::configure_vite, for App and for Scope
configure_vite ==
    /\ ~running
    /\ ~configured
    /\ configured' = TRUE
    /\ IF debug_assertions
       THEN /\ default_service' = Some(web_route("proxy_to_vite"))
            /\ services' = services \o
                <<resource(TailMatch(<<>>), web_get("proxy_to_vite")),
                  resource(TailMatch(<<"node_modules">>),
                           web_get("proxy_to_vite"))>>
       ELSE UNCHANGED <<default_service, services>>
    /\ UNCHANGED <<debug_assertions, running, dispatched, storeVars, envVars,
                   proxyVars, startVars, findVars, threadVars>>

\* HttpServer::new(factory).bind(..).run(): the application is built
run ==
    /\ ~running
    /\ running' = TRUE
    /\ UNCHANGED <<debug_assertions, services, default_service, configured,
                   dispatched, storeVars, envVars, proxyVars, startVars,
                   findVars, threadVars>>

\* the router: the first registered resource whose pattern and guards
\* accept the request, Option<index>
recognize(method, path) ==
    LET hits == {i \in 1..Len(services) :
                    /\ is_match(services[i].pattern, path)
                    /\ check(services[i].guard, method)}
    IN  IF hits = {} THEN None
        ELSE Some(CHOOSE i \in hits : \A j \in hits : i <= j)

\* a resource's service: its first route whose guards accept the request,
\* otherwise the resource's own default, 405 Method Not Allowed
resource_call(i, method) ==
    LET routes == services[i].routes
        hits == {k \in 1..Len(routes) : check(routes[k].guard, method)}
    IN  IF hits = {}
        THEN [handler |-> None, status |-> Some(405), via |-> Some(i)]
        ELSE [handler |-> Some(routes[CHOOSE k \in hits :
                                        \A j \in hits : k <= j].to),
              status |-> None, via |-> Some(i)]

\* who answers a request: a resource, else the default service, else the
\* application's built-in default, 404 Not Found
answer(method, path) ==
    LET r == recognize(method, path)
    IN  IF r # None THEN resource_call(r[1], method)
        ELSE IF default_service # None
             THEN [handler |-> Some(default_service[1].to), status |-> None,
                   via |-> None]
             ELSE [handler |-> None, status |-> Some(404), via |-> None]

\* A request arrives at the running application.
dispatch(method, path) ==
    /\ running
    /\ dispatched' = Some([method |-> method, path |-> path,
                           answer |-> answer(method, path)])
    /\ UNCHANGED <<debug_assertions, services, default_service, configured,
                   running, storeVars, envVars, proxyVars, startVars,
                   findVars, threadVars>>

(***************************************************************************)
(* The store called from several threads.  An OnceLock's set() and         *)
(* get_or_init() take the cell's Once: the one thread that finds the cell  *)
(* empty runs its initializer and writes the cell, and while it does the   *)
(* set() and get_or_init() calls of the other threads wait; get() never    *)
(* waits and sees a cell that is being initialized as empty.  update_port  *)
(* is a get(), a clone and later a set().                                  *)
(***************************************************************************)
Threads == 1..MaxThreads

\* another thread's initializer is running: set() and get_or_init() wait
blockedMutantNever == FALSE
blocked == initializing # None

\* ProxyViteOptions::build on thread t
thread_build(t, self) ==
    /\ tpc[t] = "idle"
    /\ ~blocked
    /\ cell' = OnceLockSet(cell, self)
    /\ tret' = [tret EXCEPT ![t] = IF OnceLockSetIsErr(cell) THEN "build:Err"
                                   ELSE "build:Ok"]
    /\ committed' = IF OnceLockSetIsErr(cell) THEN committed
                    ELSE Append(committed, self)
    /\ UNCHANGED <<initializing, tpc, tlocal, observed, op, pre, ret, arg,
                   committer, globals, envVars, proxyVars, startVars,
                   findVars, routeVars>>

\* ProxyViteOptions::global on thread t, finding the cell empty: the thread
\* starts to run Self::default
thread_global_begin(t) ==
    /\ tpc[t] = "idle"
    /\ ~blocked
    /\ cell = None
    /\ initializing' = Some(t)
    /\ tpc' = [tpc EXCEPT ![t] = "global_init"]
    /\ UNCHANGED <<tlocal, tret, committed, observed, storeVars, envVars,
                   proxyVars, startVars, findVars, routeVars>>

\* Self::default has run: the thread writes the cell and returns it
thread_global_init(t) ==
    /\ tpc[t] = "global_init"
    /\ cell' = Some(Default)
    /\ initializing' = None
    /\ tpc' = [tpc EXCEPT ![t] = "idle"]
    /\ tret' = [tret EXCEPT ![t] = "global"]
    /\ observed' = observed \cup {Default}
    /\ UNCHANGED <<tlocal, committed, op, pre, ret, arg, committer, globals,
                   envVars, proxyVars, startVars, findVars, routeVars>>

\* ProxyViteOptions::global on thread t, finding the cell full
thread_global_read(t) ==
    /\ tpc[t] = "idle"
    /\ ~blocked
    /\ cell # None
    /\ tret' = [tret EXCEPT ![t] = "global"]
    /\ observed' = observed \cup {cell[1]}
    /\ UNCHANGED <<initializing, tpc, tlocal, committed, storeVars, envVars,
                   proxyVars, startVars, findVars, routeVars>>

\* ProxyViteOptions::update_port on thread t: get(), and the clone with the
\* new port when the cell is full; Ok(()) at once when it is not
thread_update_port_get(t, p) ==
    /\ tpc[t] = "idle"
    /\ IF cell # None
       THEN /\ tlocal' = [tlocal EXCEPT ![t] = Some(port(cell[1], p))]
            /\ tpc' = [tpc EXCEPT ![t] = "update_port_set"]
            /\ UNCHANGED tret
       ELSE /\ tret' = [tret EXCEPT ![t] = "update_port:Ok"]
            /\ UNCHANGED <<tlocal, tpc>>
    /\ UNCHANGED <<initializing, committed, observed, storeVars, envVars,
                   proxyVars, startVars, findVars, routeVars>>

\* ProxyViteOptions::update_port on thread t: set(updated), then Ok(())
thread_update_port_set(t) ==
    /\ tpc[t] = "update_port_set"
    /\ ~blocked
    /\ cell' = OnceLockSet(cell, tlocal[t][1])
    /\ tlocal' = [tlocal EXCEPT ![t] = None]
    /\ tpc' = [tpc EXCEPT ![t] = "idle"]
    /\ tret' = [tret EXCEPT ![t] = "update_port:Ok"]
    /\ UNCHANGED <<initializing, committed, observed, op, pre, ret, arg,
                   committer, globals, envVars, proxyVars, startVars,
                   findVars, routeVars>>

vars == <<storeVars, envVars, proxyVars, startVars, findVars, routeVars,
          threadVars>>

FileSets == {fs \in SUBSET (Dirs \X ConfigNames) : Cardinality(fs) <= MaxFiles}

InitStore ==
    /\ cell = None
    /\ op = "init"
    /\ pre = None
    /\ ret = "none"
    /\ arg = None
    /\ committer = "none"
    /\ globals = <<>>

InitEnv ==
    /\ cwd \in {Some(d) : d \in Dirs} \cup {None}
    /\ files \in FileSets
    /\ vite_port = None
    /\ vite_working_dir = None

InitProxy ==
    /\ pc = "idle"
    /\ req = [method |-> "GET", uri |-> "/"]
    /\ forward_url = ""
    /\ seen = [store |-> None, env |-> None]
    /\ n_chunks = 0
    /\ client_body = <<>>
    /\ body_bytes = <<>>
    /\ outbound = None
    /\ n_sent = 0
    /\ forwarded_resp = None
    /\ resp_body_bytes = <<>>
    /\ result = None

InitStart ==
    /\ which_output = None
    /\ start_ret = "none"
    /\ child = None
    /\ found = None

InitHost ==
    /\ debug_assertions = TRUE
    /\ InitApp

InitThreads ==
    /\ initializing = None
    /\ tpc = [t \in Threads |-> "idle"]
    /\ tlocal = [t \in Threads |-> None]
    /\ tret = [t \in Threads |-> "none"]
    /\ committed = <<>>
    /\ observed = {}

(***************************************************************************)
(* The directory resolver, over every small filesystem.                    *)
(***************************************************************************)
FindInit ==
    InitStore /\ InitProxy /\ InitStart /\ InitEnv /\ InitHost /\ InitThreads

FindNext ==
    \/ find
    \/ \E d \in Dirs : chdir(d)

FindSpec == FindInit /\ [][FindNext]_vars

(***************************************************************************)
(* The configuration store, in a process that changes its directory.       *)
(***************************************************************************)
StoreDirs == {<<"/", "a">>, <<"/", "a", "a">>, <<"/", NonUtf8>>}
StoreFiles ==
    {{}, {<<(<<"/", "a">>), "vite.config.ts">>},
     {<<(<<"/", "a", "a">>), "vite.config.js">>},
     {<<(<<"/", NonUtf8>>), "vite.config.ts">>}}

Init ==
    /\ InitStore /\ InitProxy /\ InitStart /\ InitHost /\ InitThreads
    /\ cwd \in {None} \cup {Some(d) : d \in StoreDirs}
    /\ files \in StoreFiles
    /\ vite_port = None
    /\ vite_working_dir = None

Next ==
    \/ \E self \in Built : build(self)
    \/ global
    \/ \E p \in Ports : update_port(p)
    \/ \E d \in StoreDirs : chdir(d)

Spec == Init /\ [][Next]_vars

(***************************************************************************)
(* The forwarding handler, relaying bodies and headers.                    *)
(***************************************************************************)
HeaderLists ==
    UNION {[1..k -> HeaderEntries] : k \in 0..MaxHeaders}
Requests ==
    {[method |-> "GET", uri |-> "/assets/app.js"],
     [method |-> "POST", uri |-> "/api/?q=1"]}

InitProxyEnv ==
    /\ cwd = Some(<<"/", "a">>)
    /\ files = {}
    /\ vite_port \in {None, Some("3000")}
    /\ vite_working_dir = None

ProxyInit ==
    /\ InitStore /\ InitProxyEnv /\ InitProxy /\ InitStart
    /\ InitHost /\ InitThreads

Exchange(requests, chunks, statuses, headerLists) ==
    \/ \E r \in requests : proxy_to_vite(r.method, r.uri)
    \/ \E chunk \in chunks : read_body_chunk(chunk)
    \/ read_body_error
    \/ read_body_end
    \/ send_body
    \/ send_failed
    \/ \E status \in statuses, entries \in headerLists :
            send_answered(status, entries)
    \/ \E chunk \in chunks : read_resp_chunk(chunk)
    \/ read_resp_error
    \/ respond

ProxyNext == Exchange(Requests, Chunks, Statuses, HeaderLists)

ProxySpec == ProxyInit /\ [][ProxyNext]_vars

(***************************************************************************)
(* The forwarding handler beside the store and the environment: the        *)
(* application configures a port while requests come in.                   *)
(***************************************************************************)
PortInit ==
    /\ InitStore /\ InitProxy /\ InitStart /\ InitHost /\ InitThreads
    /\ cwd = Some(<<"/", "a">>)
    /\ files = {}
    /\ vite_port = None
    /\ vite_working_dir = None

PortNext ==
    \/ \E self \in {new} \cup {port(new, p) : p \in Ports} : build(self)
    \/ global
    \/ \E p \in Ports : update_port(p)
    \/ \E p \in Ports : set_var(Display(p))
    \/ Exchange(Requests, {[b |-> "x", n |-> 1]}, {200}, {<<>>})

PortSpec == PortInit /\ [][PortNext]_vars

(***************************************************************************)
(* The launcher: locating the executable and spawning the child.           *)
(***************************************************************************)
WhichOutputs == UNION {[1..k -> OutChars] : k \in 0..MaxOut}
Lookups == {None} \cup {Some(t) : t \in WhichOutputs}

StartInit ==
    /\ InitStore /\ InitProxy /\ InitStart /\ InitHost /\ InitThreads
    /\ cwd \in {None, Some(<<"/", "a">>), Some(<<"/", NonUtf8>>)}
    /\ files \in {{}, {<<(<<"/", "a">>), "vite.config.js">>}}
    /\ vite_port \in {None, Some("3000")}
    /\ vite_working_dir \in {None, Some(<<".", "examples", "wwwroot">>)}

StartNext ==
    \/ \E lookup \in Lookups, spawns \in BOOLEAN :
            start_vite_server(lookup, spawns)
    \/ child_closes

StartSpec == StartInit /\ [][StartNext]_vars

(***************************************************************************)
(* The spawned child beside the store: the application configures the      *)
(* store, starts the dev server, and the dev server announces its port.    *)
(***************************************************************************)
ReadyLine(p) == <<"  Local:   ", "http://localhost:", Display(p), "/">>
Lines == {<<"VITE v5 ready in 300 ms">>} \cup {ReadyLine(p) : p \in Ports}

ChildInit ==
    /\ InitStore /\ InitProxy /\ InitStart /\ InitHost /\ InitThreads
    /\ cwd = Some(<<"/", "a">>)
    /\ files = {}
    /\ vite_port = None
    /\ vite_working_dir = None

ChildNext ==
    \/ \E self \in {new} \cup {port(new, p) : p \in Ports} : build(self)
    \/ global
    \/ \E p \in Ports : update_port(p)
    \/ \E spawns \in BOOLEAN : start_vite_server(Some(<<"v">>), spawns)
    \/ \E line \in Lines : child_writes(line)
    \/ child_closes

ChildSpec == ChildInit /\ [][ChildNext]_vars

(***************************************************************************)
(* The host application: it registers its routes and applies               *)
(* configure_vite, in any order, then serves requests.                     *)
(***************************************************************************)
AppPaths == {<<"api", "">>, <<"api", "users">>}
AppMethods == {"GET", "POST"}
RequestPaths ==
    AppPaths \cup {<<"">>, <<"assets", "app.js">>, <<"node_modules", "vue.js">>}

RouteInit ==
    /\ InitStore /\ InitProxy /\ InitStart /\ InitThreads
    /\ cwd = Some(<<"/", "a">>)
    /\ files = {}
    /\ vite_port = None
    /\ vite_working_dir = None
    /\ debug_assertions \in BOOLEAN
    /\ InitApp

RouteNext ==
    \/ \E path \in AppPaths, m \in AppMethods :
            route(path, web_method(m, "HttpResponse::Ok"))
    \/ configure_vite
    \/ run
    \/ \E m \in HttpMethods, path \in RequestPaths : dispatch(m, path)

RouteSpec == RouteInit /\ [][RouteNext]_vars

(***************************************************************************)
(* The store called from several threads of a process that changes its     *)
(* directory.                                                              *)
(***************************************************************************)
ThreadDirs == {<<"/", "a">>, <<"/", "a", "a">>}

ThreadInit ==
    /\ InitStore /\ InitProxy /\ InitStart /\ InitHost /\ InitThreads
    /\ cwd = Some(<<"/", "a">>)
    /\ files = {<<(<<"/", "a", "a">>), "vite.config.js">>}
    /\ vite_port = None
    /\ vite_working_dir = None

ThreadNext ==
    \/ \E t \in Threads, self \in {new} \cup {port(new, p) : p \in Ports} :
            thread_build(t, self)
    \/ \E t \in Threads : thread_global_begin(t)
    \/ \E t \in Threads : thread_global_init(t)
    \/ \E t \in Threads : thread_global_read(t)
    \/ \E t \in Threads, p \in Ports : thread_update_port_get(t, p)
    \/ \E t \in Threads : thread_update_port_set(t)
    \/ \E d \in ThreadDirs : chdir(d)

ThreadSpec == ThreadInit /\ [][ThreadNext]_vars

(***************************************************************************)
(* The configuration store's claims.                                       *)
(***************************************************************************)
LastGlobal == globals[Len(globals)]
IsPrefix(d, c) == Len(d) <= Len(c) /\ SubSeq(c, 1, Len(d)) = d

\* C1: on an initialized store, a read after update_port calls returns a
\* configuration whose port is the port of the most recent update_port call.
C1_LastWriteWins ==
    (op = "global" /\ arg # None) => LastGlobal.port = arg

\* C3: build() returns an error whenever a snapshot already exists, committed
\* by build() or by global(), and leaves that snapshot unchanged.
C3_BuildFailsWhenInitialized ==
    (op = "build" /\ pre # None) => (ret = "Err" /\ cell = pre)

C3_Witness ==
    op = "build" /\ pre # None /\ committer = "global" /\ ret = "Err"

\* C4: two global() calls with no build() between them return the same
\* snapshot: the first commits the defaults into an empty store (port none,
\* log level debug, working directory the resolved project root or "./"),
\* the second returns the committed value and does not replace it.
C4_GlobalIdempotent ==
    /\ Len(globals) = 2 => globals[1] = globals[2]
    /\ op = "global" => cell = Some(LastGlobal)
    /\ (op = "global" /\ pre # None) => cell = pre
    /\ (op = "global" /\ pre = None) =>
            /\ LastGlobal.port = None
            /\ LastGlobal.log_level = Some("Debug")
            /\ \/ LastGlobal.working_directory = <<".">>
               \/ /\ cwd # None
                  /\ IsPrefix(LastGlobal.working_directory, cwd[1])
                  /\ \E n \in ConfigNames :
                        <<LastGlobal.working_directory, n>> \in files

C4_Witness ==
    /\ op = "global" /\ Len(globals) = 2 /\ committer = "global"
    /\ globals[2] # Default

(***************************************************************************)
(* The forwarding handler's claims.                                        *)
(***************************************************************************)
\* the bytes of a sequence of chunks, in order
RECURSIVE Flatten(_)
Flatten(cs) ==
    IF cs = <<>> THEN <<>>
    ELSE LET init == Flatten(SubSeq(cs, 1, Len(cs) - 1))
             c == cs[Len(cs)]
         IN  IF c.n = 0 THEN init
             ELSE IF init # <<>> /\ init[Len(init)].b = c.b
                  THEN SubSeq(init, 1, Len(init) - 1)
                       \o <<[b |-> c.b, n |-> init[Len(init)].n + c.n]>>
                  ELSE init \o <<c>>
RECURSIVE Total(_)
Total(cs) == IF cs = <<>> THEN 0 ELSE cs[1].n + Total(Tail(cs))

\* C2: invoked while no port is known (none in the store, none in the
\* environment), the handler issues no outbound request: it never forwards
\* to a default port.
C2_NoForwardWithoutPort ==
    (pc # "idle" /\ seen.store = None /\ seen.env = None) =>
        (outbound = None /\ n_sent = 0)

\* C5: a request whose chunks accumulate to more than MAX_PAYLOAD_SIZE gets
\* a PayloadTooLarge error and no outbound request is issued for it.
C5_TooLargeNotForwarded ==
    Total(client_body) > MAX_PAYLOAD_SIZE =>
        /\ pc = "done"
        /\ result = Some(Failure("PayloadTooLarge", 413, "Payload overflow"))
        /\ outbound = None
        /\ n_sent = 0

C5_Witness ==
    /\ Total(client_body) > MAX_PAYLOAD_SIZE
    /\ \A i \in 1..Len(client_body) : client_body[i].n <= MAX_PAYLOAD_SIZE
    /\ pc = "done"

\* C6: a body of at most MAX_PAYLOAD_SIZE bytes (exactly MAX_PAYLOAD_SIZE
\* included) is not refused as too large, and the body sent to the dev server
\* is the in-order concatenation of the chunks received.
C6_BodyForwardedVerbatim ==
    /\ outbound # None => outbound[1].body = Flatten(client_body)
    /\ pc = "send" => body_bytes = Flatten(client_body)
    /\ (result # None /\ result[1].msg = "Payload overflow") =>
            Total(client_body) > MAX_PAYLOAD_SIZE

C6_Witness ==
    /\ outbound # None
    /\ Total(client_body) = MAX_PAYLOAD_SIZE
    /\ Len(outbound[1].body) = 2

\* C7: a successful forward returns the dev server's status code and its
\* header entries, every entry of a repeated header name included.
C7_ResponseRelayed ==
    (pc = "done" /\ result[1].tag = "Ok") =>
        /\ result[1].status = forwarded_resp[1].status
        /\ result[1].headers = forwarded_resp[1].headers

\* C8: the outbound target is http://localhost:<port><path and query>, the
\* port being the one the store held when the request was handled.
C8_ForwardsToStorePort ==
    (outbound # None /\ seen.store # None) =>
        outbound[1].url =
            "http://localhost:" \o Display(seen.store[1]) \o req.uri

(***************************************************************************)
(* The launcher's claims.                                                  *)
(***************************************************************************)
\* C9: when the PATH lookup writes nothing but whitespace, start_vite_server
\* returns a NotFound error and spawns no child.
C9_NotFoundSpawnsNothing ==
    (which_output # None /\
     \A i \in 1..Len(which_output[1]) : which_output[1][i] \in Whitespace) =>
        (start_ret = "Err(NotFound)" /\ child = None)

C9_Witness ==
    /\ which_output # None
    /\ Len(which_output[1]) >= 2
    /\ \A i \in 1..Len(which_output[1]) : which_output[1][i] \in Whitespace
    /\ start_ret = "Err(NotFound)"

\* the port a readiness line names, Option<u16>
ReadyPort(line) ==
    IF Len(line) = 4 /\ line[2] = "http://localhost:"
    THEN LET ps == {p \in Ports : Display(p) = line[3]}
         IN  IF ps = {} THEN None ELSE Some(CHOOSE p \in ps : TRUE)
    ELSE None

\* C10: once the spawned child has written a readiness line naming
\* http://localhost:<N>/ and has closed its output, an initialized store
\* holds port N, N being the port of the last such line.
C10_ReadyPortReachesStore ==
    (cell # None /\ child # None /\ ~child[1].open) =>
        \A i \in 1..Len(child[1].stdout) :
            (ReadyPort(child[1].stdout[i]) # None /\
             \A j \in (i + 1)..Len(child[1].stdout) :
                ReadyPort(child[1].stdout[j]) = None) =>
                    storePort = ReadyPort(child[1].stdout[i])

(***************************************************************************)
(* The route binder's claims.                                              *)
(***************************************************************************)
\* one of the application's own routes accepts the request
AppRouteMatches(method, path) ==
    \E i \in AppRoutes :
        /\ is_match(services[i].pattern, path)
        /\ check(services[i].guard, method)
        /\ \E k \in 1..Len(services[i].routes) :
                check(services[i].routes[k].guard, method)

\* C11: in a development build with configure_vite() applied, a request of
\* any method that none of the application's own routes accepts is handled
\* by proxy_to_vite; it is not answered 405 or 404 by a route of the binder.
C11_UnmatchedIsForwarded ==
    (dispatched # None /\ debug_assertions /\ configured /\
     ~AppRouteMatches(dispatched[1].method, dispatched[1].path)) =>
        dispatched[1].answer.handler = Some("proxy_to_vite")

\* C12: with configure_vite() applied, a request that one of the
\* application's own routes accepts is served by the application's handler,
\* wherever that route was registered, and proxy_to_vite handles only
\* requests that no application route accepts.
C12_AppRoutesWin ==
    (dispatched # None /\ configured) =>
        /\ AppRouteMatches(dispatched[1].method, dispatched[1].path) =>
                dispatched[1].answer.handler = Some("HttpResponse::Ok")
        /\ dispatched[1].answer.handler = Some("proxy_to_vite") =>
                ~AppRouteMatches(dispatched[1].method, dispatched[1].path)

(***************************************************************************)
(* The directory resolver's claims.                                        *)
(***************************************************************************)
HasConfig(dir) == \E n \in ConfigNames : <<dir, n>> \in files

\* the nearest directory with a config file on the chain d, parent(d), ...,
\* root, Option<path>
RECURSIVE Nearest(_)
Nearest(d) ==
    IF HasConfig(d) THEN Some(d)
    ELSE IF Len(d) <= 1 THEN None
    ELSE Nearest(SubSeq(d, 1, Len(d) - 1))

\* C13: started from directory D, try_find_vite_dir returns the nearest
\* directory on the chain D, parent(D), ..., root that holds vite.config.ts
\* or vite.config.js, and none exactly when no directory on the chain does.
C13_NearestOnChain ==
    (found # None /\ found[1].from # None) =>
        found[1].ret = Nearest(found[1].from[1])

\* the port the process has been configured with, as text: the store's,
\* else the environment's, Option<string>
DesiredPort ==
    IF storePort # None THEN Some(Display(storePort[1])) ELSE vite_port

\* the values that follow a --port flag among a child's arguments
PortArgs(args) ==
    {args[i + 1] : i \in {j \in 1..(Len(args) - 1) : args[j] = "--port"}}

\* C14: the spawned child is given `--port N` exactly when a port is
\* configured, N being that port; with no port configured it is given no
\* --port argument at all.
C14_PortArgIffConfigured ==
    child # None =>
        /\ DesiredPort # None => PortArgs(child[1].args) = {DesiredPort[1]}
        /\ DesiredPort = None =>
                \A i \in 1..Len(child[1].args) : child[1].args[i] # "--port"

(***************************************************************************)
(* The configuration store under concurrency.                              *)
(***************************************************************************)
\* C15: whatever the interleaving of build(), global() and update_port()
\* calls of several threads, at most one build() call returns Ok, the cell
\* then holds the configuration passed to that call, and every global()
\* call returns the one snapshot the cell holds.
C15_SingleCommit ==
    /\ Len(committed) <= 1
    /\ Len(committed) = 1 => cell = Some(committed[1])
    /\ Cardinality(observed) <= 1
    /\ observed # {} => (cell # None /\ observed = {cell[1]})

C15_Witness ==
    /\ Len(committed) = 1
    /\ observed = {committed[1]}
    /\ \E t1, t2 \in Threads :
            /\ tret[t1] = "build:Ok"
            /\ tret[t2] = "build:Err"
            /\ tpc[t1] = "update_port_set"
            /\ tlocal[t1] # cell

\* C16: update_port(p) returns Ok and leaves the working_directory and the
\* log_level of the snapshot as they were; on an empty store it leaves the
\* store empty, so that a build() that follows succeeds and a global() that
\* follows commits the defaults, with port none.
C16_UpdatePortFrame ==
    [][/\ op' = "update_port" =>
            /\ ret' = "Ok"
            /\ cell = None => cell' = None
            /\ cell # None =>
                    /\ cell' # None
                    /\ cell'[1].working_directory = cell[1].working_directory
                    /\ cell'[1].log_level = cell[1].log_level
       /\ (op = "update_port" /\ pre = None /\ op' = "build") =>
            (ret' = "Ok" /\ cell' # None /\ committer' = "build")
       /\ (op = "update_port" /\ pre = None /\ op' = "global") =>
            /\ cell' = Some(Default)
            /\ cell'[1].port = None
            /\ committer' = "global"]_vars

C16_Witness ==
    /\ op = "update_port"
    /\ ret = "Ok"
    /\ pre # None
    /\ arg # pre[1].port
    /\ cell[1].log_level = None
    /\ cell[1].working_directory = <<".">>

====
